---------------------------- MODULE Spec2Model ----------------------------
(***************************************************************************)
(* Model of splitPhoto.py: the main loop over the scanned files and        *)
(* find_subphotos_and_save, one action per step of the function.           *)
(*                                                                         *)
(* Floating point values that the code truncates (rectangle centre and     *)
(* size, contour area) are kept in half units: a name ending in 2 holds    *)
(* twice the value (cx2 = 3 is cx = 1.5).  Values the code has already     *)
(* passed through int() are plain integers.                                *)
(***************************************************************************)
EXTENDS Integers, Sequences, FiniteSets

\* ----------------------------------------------------------------- bounds
\* rotated.shape[1] and rotated.shape[0]: every scan has this frame size
FrameW == 5
FrameH == 3
\* at most this many external contours per image
MaxContours == 2
\* at most this many files matched by the glob
MaxFiles == 2
\* min_contour_area ranges over 0 .. MaxMinArea2 half units
MaxMinArea2 == 2
\* cv2.contourArea ranges over 0 .. MaxArea2 half units
MaxArea2 == 3

\* ------------------------------------------------------- program constants
\* cv2.threshold(gray, 240, 255, cv2.THRESH_BINARY_INV)
ThreshValue == 240
MaxValue == 255
\* if w < h or angle > 45.0
AngleLimit == 45

\* ------------------------------------------------------------------ helpers
Min(a, b) == IF a <= b THEN a ELSE b
Max(a, b) == IF a >= b THEN a ELSE b

\* Python int() of the float n/d (d > 0): truncation toward zero
Trunc(n, d) == IF n >= 0 THEN n \div d ELSE -((-n) \div d)

\* ------------------------------------------------------------ binarization
\* the threshold with the bound itself counted as background
ThresholdGE(l) == IF l >= ThreshValue THEN 0 ELSE MaxValue
\* THRESH_BINARY_INV: dst = 0 where src > thresh, maxval otherwise
Threshold(l) == IF l > ThreshValue THEN 0 ELSE MaxValue

\* The grayscale image as the set of luminance values that occur in it: a
\* single value, or one value on a white (255) background.
GrayImages == {{l} : l \in 0..255} \cup {{l, 255} : l \in 0..255}

\* ------------------------------------------------------- fitted rectangles
\* cv2.minAreaRect returns ((cx, cy), (w, h), angle): the width lies along
\* (cos angle, sin angle), the height along (-sin angle, cos angle).  The
\* angle is in [-90, 0) before OpenCV 4.5.1 and in (0, 90] since; 0 stands for
\* the -0.0 of the old convention.
UprightAngles == {-90, 0, 90}
TiltAngles == {45, 60}

\* The rectangle of a contour whose bounding box has the pixel corners
\* (x0, y0) and (x1, y1): at 0 degrees the width lies along x, at +-90
\* degrees along y.
BoxRect(x0, x1, y0, y1, a) ==
    [cx2 |-> x0 + x1, cy2 |-> y0 + y1,
     w2 |-> IF a = 0 THEN 2 * (x1 - x0) ELSE 2 * (y1 - y0),
     h2 |-> IF a = 0 THEN 2 * (y1 - y0) ELSE 2 * (x1 - x0),
     angle |-> a]

UprightRects ==
    {BoxRect(x0, x1, y0, y1, a) :
        <<x0, x1, y0, y1, a>> \in
            {t \in (0..(FrameW - 1)) \X (0..(FrameW - 1)) \X (0..(FrameH - 1))
                   \X (0..(FrameH - 1)) \X UprightAngles : t[1] <= t[2] /\ t[3] <= t[4]}}

\* upper bounds of |cos| and |sin| of the angle, in eighths
Cos8(a) == CASE a = 0 -> 8 [] a \in {90, -90} -> 0 [] a = 45 -> 6 [] a = 60 -> 4
Sin8(a) == CASE a = 0 -> 0 [] a \in {90, -90} -> 8 [] a = 45 -> 6 [] a = 60 -> 7

\* no side is longer than the diagonal of the frame
MaxSide2 == CHOOSE s \in 0..(2 * (FrameW + FrameH)) :
                /\ s * s <= 4 * ((FrameW - 1) * (FrameW - 1) + (FrameH - 1) * (FrameH - 1))
                /\ (s + 1) * (s + 1) > 4 * ((FrameW - 1) * (FrameW - 1) + (FrameH - 1) * (FrameH - 1))

\* A tilted rectangle minAreaRect can return for a contour whose points lie
\* in the frame: each of its four sides touches a point of the frame, so the
\* frame's projection on the width axis u = (cos a, sin a) and on the height
\* axis v = (-sin a, cos a) reaches centre +- size/2.
Touches(r) ==
    LET c == Cos8(r.angle)
        s == Sin8(r.angle)
        l2 == r.cx2                        \* distance to the left edge
        r2 == 2 * (FrameW - 1) - r.cx2     \* to the right edge
        t2 == r.cy2                        \* to the top edge
        b2 == 2 * (FrameH - 1) - r.cy2     \* to the bottom edge
    IN  /\ 4 * r.w2 <= c * r2 + s * b2
        /\ 4 * r.w2 <= c * l2 + s * t2
        /\ 4 * r.h2 <= s * l2 + c * b2
        /\ 4 * r.h2 <= s * r2 + c * t2

TiltedRects ==
    {r \in [cx2 : 0..(2 * (FrameW - 1)), cy2 : 0..(2 * (FrameH - 1)),
            w2 : 0..MaxSide2, h2 : 0..MaxSide2, angle : TiltAngles] : Touches(r)}

Rects == UprightRects \cup TiltedRects

NoRect == [cx2 |-> 0, cy2 |-> 0, w2 |-> 0, h2 |-> 0, angle |-> 0]


\* ------------------------------------------------------------ numpy slicing
\* one bound of a[start:stop] on an axis of length n: a negative index counts
\* from the end, and the result is clipped to 0 .. n
AdjustIndex(i, n) == IF i < 0 THEN Max(i + n, 0) ELSE Min(i, n)

\* rotated[y: y + h, x: x + w] as the rows r0 .. r1-1 and columns c0 .. c1-1
\* that numpy selects (none when the stop is not after the start)
Slice(px, py, pw, ph) ==
    [r0 |-> AdjustIndex(py, FrameH), r1 |-> AdjustIndex(py + ph, FrameH),
     c0 |-> AdjustIndex(px, FrameW), c1 |-> AdjustIndex(px + pw, FrameW)]

NoCrop == [r0 |-> 0, r1 |-> 0, c0 |-> 0, c1 |-> 0]

Rows(c) == Max(c.r1 - c.r0, 0)
Cols(c) == Max(c.c1 - c.c0, 0)
IsEmpty(c) == Rows(c) = 0 \/ Cols(c) = 0

\* ------------------------------------------------------------ crop window
\* the window left as fitted
ClampNone(limit, size) == size
\* w = min(rotated.shape[1] - x, w)
Clamp(limit, size) == Min(limit, size)

\* x = int(cx - w / 2) with w already an integer
Corner(c2, size) == Trunc(c2 - size, 2)

\* the test on the size minAreaRect returned
ShouldRotateFitted(pw, ph, r) == r.w2 < r.h2 \/ r.angle > AngleLimit
\* if w < h or angle > 45.0, with w and h as lines 69-75 left them
ShouldRotate(pw, ph, r) == pw < ph \/ r.angle > AngleLimit

\* ------------------------------------------------------------------- state
VARIABLES
    pc,         \* position in the script: main loop or a line of the function
    nFiles,     \* len(image_files)
    fileIdx,    \* index of img_path in image_files, 0 before the first
    decoded,    \* per file: "pending", "none" (imread gave None) or "ok"
    moved,      \* per file: how many times shutil.move ran on it
    skipped,    \* files for which the "Skipping." line was printed
    minArea2,   \* min_contour_area, in half units
    gray,       \* luminance values of gray
    thresh,     \* luminance value -> value in thresh
    nContours,  \* len(contours)
    ci,         \* contours taken from the for loop so far
    area2,      \* area, in half units
    rect,       \* rect as returned by minAreaRect
    x, y, w, h, \* the crop window: lines 69-75
    cropped,    \* the slice taken at line 77
    rot90,      \* cv2.rotate ran on cropped
    nQual,      \* contours of this call that passed the area filter
    crops       \* sub-photos written by this call

vars == <<pc, nFiles, fileIdx, decoded, moved, skipped, minArea2, gray, thresh,
          nContours, ci, area2, rect, x, y, w, h, cropped, rot90, nQual, crops>>

main == <<nFiles, decoded, moved, skipped, minArea2>>
image == <<gray, thresh>>
locals == <<area2, rect, x, y, w, h, cropped, rot90>>

NoThresh == [l \in {} |-> 0]

ResetLocals ==
    /\ area2' = 0
    /\ rect' = NoRect
    /\ x' = 0 /\ y' = 0 /\ w' = 0 /\ h' = 0
    /\ cropped' = NoCrop
    /\ rot90' = FALSE

\* The script before line 107.  The main block passes 80000 as
\* min_contour_area ("Adjust for your case"); the function takes any value,
\* so the threshold is drawn from 0 .. MaxMinArea2 half units.
Init ==
    /\ pc = "start"
    /\ nFiles = 0
    /\ fileIdx = 0
    /\ decoded = <<>>
    /\ moved = <<>>
    /\ skipped = {}
    /\ minArea2 \in 0..MaxMinArea2
    /\ gray = {}
    /\ thresh = NoThresh
    /\ nContours = 0
    /\ ci = 0
    /\ area2 = 0
    /\ rect = NoRect
    /\ x = 0 /\ y = 0 /\ w = 0 /\ h = 0
    /\ cropped = NoCrop
    /\ rot90 = FALSE
    /\ nQual = 0
    /\ crops = 0


\* ---------------------------------------------------------- the main script
\* lines 107-116: the three folders exist, the glob lists the scans
Setup ==
    /\ pc = "start"
    /\ \E n \in 0..MaxFiles :
        /\ nFiles' = n
        /\ decoded' = [f \in 1..n |-> "pending"]
        /\ moved' = [f \in 1..n |-> 0]
    /\ pc' = "main"
    /\ UNCHANGED <<fileIdx, skipped, minArea2, image, nContours, ci, locals, nQual, crops>>

\* line 118, another img_path: call find_subphotos_and_save on it
NextFile ==
    /\ pc = "main"
    /\ fileIdx < nFiles
    /\ fileIdx' = fileIdx + 1
    /\ nContours' = 0
    /\ ci' = 0
    /\ nQual' = 0
    /\ crops' = 0
    /\ ResetLocals
    /\ pc' = "imread"
    /\ UNCHANGED <<main, image>>

\* line 118, image_files is exhausted: the script ends
Finish ==
    /\ pc = "main"
    /\ fileIdx = nFiles
    /\ pc' = "exit"
    /\ UNCHANGED <<main, fileIdx, image, nContours, ci, locals, nQual, crops>>

\* ------------------------------------------------ find_subphotos_and_save
\* lines 28-30 without the return: the skip line is printed and line 33 runs
SkipNoReturn ==
    /\ decoded' = [decoded EXCEPT ![fileIdx] = "none"]
    /\ skipped' = skipped \cup {fileIdx}
    /\ pc' = "crashed"      \* cv2.cvtColor(None, ...) raises
    /\ UNCHANGED <<nFiles, moved, minArea2>>

\* lines 28-30 with image None: print the skip line and return
SkipUndecodable ==
    /\ decoded' = [decoded EXCEPT ![fileIdx] = "none"]
    /\ skipped' = skipped \cup {fileIdx}
    /\ pc' = "main"
    /\ UNCHANGED <<nFiles, moved, minArea2>>

\* lines 26-30: cv2.imread returns None for a file it cannot decode
ReadFail ==
    /\ pc = "imread"
    /\ SkipUndecodable
    /\ UNCHANGED <<fileIdx, image, nContours, ci, locals, nQual, crops>>

\* lines 26-33: the file decodes; gray is its luminance
ReadOk ==
    /\ pc = "imread"
    /\ decoded' = [decoded EXCEPT ![fileIdx] = "ok"]
    /\ gray' \in GrayImages
    /\ pc' = "threshold"
    /\ UNCHANGED <<nFiles, moved, skipped, minArea2, fileIdx, thresh, nContours, ci,
                   locals, nQual, crops>>

\* line 37
Binarize ==
    /\ pc = "threshold"
    /\ thresh' = [l \in gray |-> Threshold(l)]
    /\ pc' = "contours"
    /\ UNCHANGED <<main, fileIdx, gray, nContours, ci, locals, nQual, crops>>

\* lines 40-44: RETR_EXTERNAL gives one contour per connected foreground
\* region, so none exactly when thresh has no foreground value.  gray and
\* thresh are not read after line 42 and are dropped here.
FindContours ==
    /\ pc = "contours"
    /\ IF \E l \in DOMAIN thresh : thresh[l] # 0
       THEN nContours' \in 1..MaxContours
       ELSE nContours' = 0
    /\ ci' = 0
    /\ gray' = {}
    /\ thresh' = NoThresh
    /\ pc' = "loop"
    /\ UNCHANGED <<main, fileIdx, locals, nQual, crops>>

AtLoopHead == pc \in {"loop", "saved"}

\* area < min_contour_area
TooSmall(a2, m2) == a2 < m2

\* lines 47-52: take the next contour and filter it by its area.  The
\* locals of the previous iteration are not read again and are dropped.
NextContour ==
    /\ AtLoopHead
    /\ ci < nContours
    /\ ci' = ci + 1
    /\ ResetLocals!2 /\ ResetLocals!3 /\ ResetLocals!4 /\ ResetLocals!5
    /\ \E a2 \in 0..MaxArea2 :
        /\ area2' = a2
        /\ IF TooSmall(a2, minArea2)
           THEN pc' = "loop" /\ nQual' = nQual
           ELSE pc' = "fit" /\ nQual' = nQual + 1
    /\ UNCHANGED <<main, fileIdx, image, nContours, crops>>

\* lines 56-77: fit the rectangle, rotate the frame about its centre,
\* truncate and clamp the window, slice it out of the rotated frame
WindowOf(R) ==
    /\ pc = "fit"
    /\ \E r \in R :
        /\ 2 * area2 <= r.w2 * r.h2      \* the rectangle encloses the contour
        /\ rect' = r
        /\ LET wi == Trunc(r.w2, 2)
               hi == Trunc(r.h2, 2)
               px == Corner(r.cx2, wi)
               py == Corner(r.cy2, hi)
               pw == Clamp(FrameW - px, wi)
               ph == Clamp(FrameH - py, hi)
           IN  /\ x' = px /\ y' = py /\ w' = pw /\ h' = ph
               /\ cropped' = Slice(px, py, pw, ph)
    /\ area2' = 0                        \* area is not read after line 50
    /\ pc' = "orient"
    /\ UNCHANGED <<main, fileIdx, image, nContours, ci, rot90, nQual, crops>>

\* the main loop is explored with the axis-parallel rectangles
Window == WindowOf(UprightRects)

\* lines 79-80 with the condition false
OrientKeep ==
    /\ pc = "orient"
    /\ ~ShouldRotate(w, h, rect)
    /\ pc' = "save"
    /\ UNCHANGED <<main, fileIdx, image, nContours, ci, locals, nQual, crops>>

\* lines 79-80 with the condition true: cv2.rotate swaps rows and columns
OrientRotate ==
    /\ pc = "orient"
    /\ ShouldRotate(w, h, rect)
    /\ rot90' = TRUE
    /\ pc' = "save"
    /\ UNCHANGED <<main, fileIdx, image, nContours, ci, area2, rect, x, y, w, h,
                   cropped, nQual, crops>>

\* line 80 on an empty array: depending on the OpenCV build cv2.rotate
\* raises there instead of returning an empty array
OrientRaise ==
    /\ pc = "orient"
    /\ ShouldRotate(w, h, rect)
    /\ IsEmpty(cropped)
    /\ rot90' = TRUE
    /\ pc' = "crashed"
    /\ UNCHANGED <<main, fileIdx, image, nContours, ci, area2, rect, x, y, w, h,
                   cropped, nQual, crops>>

\* size of the array handed to cv2.imwrite
OutW == IF rot90 THEN Rows(cropped) ELSE Cols(cropped)
OutH == IF rot90 THEN Cols(cropped) ELSE Rows(cropped)

\* lines 82-88: a fresh name (timestamp and uuid4) and one more file
Save ==
    /\ pc = "save"
    /\ ~IsEmpty(cropped)
    /\ crops' = crops + 1
    /\ pc' = "saved"
    /\ UNCHANGED <<main, fileIdx, image, nContours, ci, locals, nQual>>

\* line 87 on an empty array: cv2.imwrite raises (!_img.empty()), nothing in
\* the function or the main loop catches it and the script ends
SaveRaise ==
    /\ pc = "save"
    /\ IsEmpty(cropped)
    /\ pc' = "crashed"
    /\ UNCHANGED <<main, fileIdx, image, nContours, ci, locals, nQual, crops>>

\* lines 90-94, after the last contour: move the scan and return
Move ==
    /\ AtLoopHead
    /\ ci = nContours
    /\ moved' = [moved EXCEPT ![fileIdx] = @ + 1]
    /\ pc' = "main"
    /\ UNCHANGED <<nFiles, decoded, skipped, minArea2, fileIdx, image, nContours, ci,
                   locals, nQual, crops>>

Next ==
    \/ Setup
    \/ NextFile
    \/ Finish
    \/ ReadFail
    \/ ReadOk
    \/ Binarize
    \/ FindContours
    \/ NextContour
    \/ Window
    \/ OrientKeep
    \/ OrientRotate
    \/ OrientRaise
    \/ Save
    \/ SaveRaise
    \/ Move

Spec == Init /\ [][Next]_vars

\* ------------------------------------------------- one contour, every rect
\* The state at line 56 of the call on the only scan, whose only contour
\* has passed the area filter.
InitWindow ==
    /\ pc = "fit"
    /\ nFiles = 1
    /\ fileIdx = 1
    /\ decoded = <<"ok">>
    /\ moved = <<0>>
    /\ skipped = {}
    /\ minArea2 \in 0..MaxMinArea2
    /\ gray = {}
    /\ thresh = NoThresh
    /\ nContours = 1
    /\ ci = 1
    /\ area2 \in 0..MaxArea2
    /\ ~TooSmall(area2, minArea2)
    /\ rect = NoRect
    /\ x = 0 /\ y = 0 /\ w = 0 /\ h = 0
    /\ cropped = NoCrop
    /\ rot90 = FALSE
    /\ nQual = 1
    /\ crops = 0

\* the same step with the tilted rectangles as well
WindowFine == WindowOf(Rects)

NextWindow ==
    \/ WindowFine
    \/ OrientKeep
    \/ OrientRotate
    \/ OrientRaise
    \/ Save
    \/ SaveRaise
    \/ Move

SpecWindow == InitWindow /\ [][NextWindow]_vars


\* ------------------------------------------------------------------ claims
\* the call on file f has ended: it returned or an exception left it
Ended(f) == f < fileIdx \/ (f = fileIdx /\ pc \in {"main", "exit", "crashed"})

\* the window of the current contour has been computed (line 77 is done)
HasWindow == pc \in {"orient", "save", "saved"}

\* the orientation step of the current contour is done (line 80 is passed)
Oriented == pc \in {"save", "saved"}

\* The fitted rectangle lies inside the frame with all four corners: the
\* rectangle of a photo that is wholly on the scan.  Its extent along x is
\* w |cos a| + h |sin a| and along y it is w |sin a| + h |cos a|.
InsideFrame(r) ==
    LET ex == r.w2 * Cos8(r.angle) + r.h2 * Sin8(r.angle)
        ey == r.w2 * Sin8(r.angle) + r.h2 * Cos8(r.angle)
    IN  /\ 16 * r.cx2 >= ex /\ 16 * (2 * (FrameW - 1) - r.cx2) >= ex
        /\ 16 * r.cy2 >= ey /\ 16 * (2 * (FrameH - 1) - r.cy2) >= ey

\* the case the claims below are refuted on: a positive threshold and a
\* photo wholly on the scan
PlainCase == minArea2 > 0 /\ InsideFrame(rect)

\* C1: when the call on a decoded image has ended it has written exactly one
\* crop per contour that passed the area filter (area >= minArea), and so
\* none when no contour qualifies.  Stated for a positive threshold and a
\* photo wholly on the scan, where the claim asks least.
C1_OneCropPerQualifyingBoundary ==
    (PlainCase /\ fileIdx >= 1 /\ Ended(fileIdx) /\ decoded[fileIdx] = "ok")
        => crops = nQual

\* C2 as amended: binarization maps every luminance > 240 to background (0)
\* and every luminance <= 240 to foreground (255); 240 itself is foreground.
C2_ThresholdStrict ==
    pc = "contours" =>
        \A l \in DOMAIN thresh : /\ l > 240 <=> thresh[l] = 0
                                 /\ l <= 240 <=> thresh[l] = 255

\* C2 witness: an image holding luminance 240 has been binarized
C2_Witness == pc = "contours" /\ 240 \in DOMAIN thresh /\ thresh[240] = 255

\* C2 as stated: every luminance >= 240 becomes background (0) and every
\* luminance < 240 becomes foreground (255).
C2_ThresholdInclusive ==
    pc = "contours" =>
        \A l \in DOMAIN thresh : /\ l >= 240 => thresh[l] = 0
                                 /\ l < 240 => thresh[l] = 255

\* C3: every crop written for a fitted rectangle with width < height is
\* landscape: its final width is at least its final height.  Stated for a
\* positive threshold and a photo wholly on the scan.
C3_PortraitBecomesLandscape ==
    (PlainCase /\ pc = "saved" /\ rect.w2 < rect.h2) => OutW >= OutH

\* C4: after clamping the window ends inside the rotated frame on the right
\* and at the bottom, and w and h are at most the fitted size.
C4_WindowClamped ==
    HasWindow => /\ x + w <= FrameW
                 /\ y + h <= FrameH
                 /\ 2 * w <= rect.w2
                 /\ 2 * h <= rect.h2

\* C4 witness: a crop was written whose window the clamp has shortened
C4_Witness ==
    /\ pc = "saved"
    /\ \/ w < Trunc(rect.w2, 2) /\ x + Trunc(rect.w2, 2) > FrameW
       \/ h < Trunc(rect.h2, 2) /\ y + Trunc(rect.h2, 2) > FrameH

\* C5: a file that does not decode is reported as skipped and the call
\* returns normally: nothing is written or moved and no exception leaves it.
C5_UndecodableIsSkipped ==
    \A f \in 1..nFiles :
        decoded[f] = "none" =>
            /\ f \in skipped
            /\ moved[f] = 0
            /\ f = fileIdx => (pc \in {"main", "exit"} /\ crops = 0 /\ nQual = 0)

\* C5 witness: the call on an undecodable file has just returned
C5_Witness ==
    /\ pc = "main"
    /\ fileIdx >= 1
    /\ decoded[fileIdx] = "none"
    /\ fileIdx \in skipped

\* C6: the extraction of a decoded image never raises, whatever the fitted
\* rectangle and the clamped window.  Stated for a positive threshold and a
\* photo wholly on the scan.
C6_NeverRaises == PlainCase => pc # "crashed"

\* C8 as amended: cv2.rotate is applied to the crop if and only if the window
\* width after truncation and clamping is less than the window height, or the
\* fitted angle exceeds 45 degrees.
C8_RotatedIffWindowPortrait ==
    (Oriented \/ (pc = "crashed" /\ rect # NoRect)) =>
        (rot90 <=> (w < h \/ rect.angle > 45))

\* C8 witness: a crop of a fitted rectangle with width < height was written
\* without the rotation, the truncated window being square
C8_Witness ==
    /\ pc = "saved" /\ PlainCase
    /\ rect.w2 < rect.h2 /\ rect.angle <= 45 /\ ~rot90

\* C8 as stated: the crop is rotated if and only if the fitted width is less
\* than the fitted height or the fitted angle exceeds 45 degrees.
C8_RotatedIffFittedPortrait ==
    (PlainCase /\ Oriented) => (rot90 <=> (rect.w2 < rect.h2 \/ rect.angle > 45))

\* C9: the window starts inside the frame and is not empty, and the slice is
\* exactly the rows y .. y+h-1 and the columns x .. x+w-1.  Stated for a
\* positive threshold and a photo wholly on the scan.
C9_WindowInsideFrame ==
    (PlainCase /\ HasWindow) =>
                 /\ x >= 0 /\ y >= 0
                 /\ w > 0 /\ h > 0
                 /\ cropped = [r0 |-> y, r1 |-> y + h, c0 |-> x, c1 |-> x + w]

\* C10: a call that has ended has moved its file exactly once if the image
\* decoded and never if it did not, a file is moved only when every
\* qualifying contour's crop is written, and every decoded file before the
\* current one has been moved.  Stated for a positive threshold and a photo
\* wholly on the scan.
C10_MovedOnceAfterAllCrops ==
    PlainCase => \A f \in 1..nFiles :
        /\ (Ended(f) /\ decoded[f] = "ok") => moved[f] = 1
        /\ decoded[f] # "ok" => moved[f] = 0
        /\ (f = fileIdx /\ moved[f] > 0) => crops = nQual

=============================================================================
